---------------------------- MODULE Spec2Model ----------------------------
(***************************************************************************)
(* need-cash: the Ledger (src/src/ledger.py), the Flow record and its      *)
(* process-wide id counter (src/src/flow.py), and the application start-up *)
(* that reloads the pickled ledger and re-seeds the counter                *)
(* (src/src/gui/app_manager.py, src/src/utils/save.py).                    *)
(*                                                                         *)
(* A Flow is a record; the two partitions of Ledger._flows are sequences   *)
(* of such records.  Timestamps are integers: ticks of the clock since     *)
(* 00:00:00 of 1 January 2024.  The balance engine                         *)
(* (src/src/utils/balance.py) and Ledger.flows_to_be_executed read the     *)
(* clock; they are modelled in the second half of the module.              *)
(***************************************************************************)
EXTENDS Integers, Sequences, FiniteSets, TLC

(* ------------------------------ bounds --------------------------------- *)
MaxId == 3          \* Flow._id_counter is not pushed beyond this value
MaxExecuted == 2    \* len(_flows['executed']) is not pushed beyond this
Second == 2         \* ticks of the clock in one second: the resolution of a datetime

(* ------------------------- program constants --------------------------- *)
IdCounterDefault == -1   \* Flow._id_counter before any Flow is constructed
LastIdDefault == 0       \* Ledger.last_id of a new Ledger

(* --------------------------- input domains ----------------------------- *)
\* The (real_size, time_executed) pairs execute_flow is called with: each
\* differs in size and in time from one of the FlowInputs.
Executions ==
  { [real_size |-> -1, time_executed |-> 0],
    [real_size |-> 3,  time_executed |-> 1] }

\* The field values a caller constructs a Flow from (size, category,
\* time_executed, recurrent, comments): a one-off income and a recurring
\* expense.
FlowInputs ==
  { [size |-> 2,  category |-> "salary", time_executed |-> 0, recurrent |-> 0, comments |-> ""],
    [size |-> -1, category |-> "rent",   time_executed |-> 1, recurrent |-> 1, comments |-> "flat"] }

VARIABLES
  flows,       \* Ledger._flows: [executed |-> Seq(Flow), projected |-> Seq(Flow)]
  last_id,     \* Ledger.last_id
  id_counter,  \* Flow._id_counter (class attribute, one per process)
  disk,        \* the pickled ledger on disk
  reloaded,    \* TRUE once a process was started from the ledger on disk
  op           \* the most recent call: its arguments, printed output, result

VARIABLES
  now,                \* the clock: what datetime.now() returns
  default_timestamp,  \* get_balance.__defaults__[0]: the value its default
                      \* argument `_timestamp=datetime.now()` was bound to
                      \* when the process imported utils/balance.py
  left                \* history: the ids that left the projected partition,
                      \* each with the call that took it out

vars ==
  <<flows, last_id, id_counter, disk, reloaded, op, now, default_timestamp, left>>

\* The absent Flow (Python None); no Flow ever has a negative id.
NoFlow ==
  [flow_id |-> -1, size |-> 0, category |-> "", time_executed |-> 0,
   recurrent |-> 0, comments |-> ""]

NoOp ==
  [name |-> "init", flow |-> NoFlow, is_proj |-> FALSE, flow_id |-> -1,
   real_size |-> 0, time_executed |-> 0, matched |-> NoFlow,
   out |-> "", ret |-> "None"]

(* ------------------------------ helpers -------------------------------- *)
\* any(f.flow_id == id for f in s)
HasId(s, id) == \E i \in 1..Len(s) : s[i].flow_id = id

\* number of flows of s that carry the id
CountId(s, id) == Cardinality({i \in 1..Len(s) : s[i].flow_id = id})

\* index of the first flow of s with the id: the flow a `for` loop with an
\* `if flow.flow_id == flow_id` test stops at
FirstWithId(s, id) ==
  CHOOSE i \in 1..Len(s) : s[i].flow_id = id /\ \A j \in 1..(i-1) : s[j].flow_id # id

\* list.remove(x): drops the first element equal to x (dataclass __eq__
\* compares every field)
ListRemove(s, x) ==
  LET i == CHOOSE k \in 1..Len(s) : s[k] = x /\ \A j \in 1..(k-1) : s[j] # x
  IN  [k \in 1..(Len(s)-1) |-> IF k < i THEN s[k] ELSE s[k+1]]

\* Flow.__post_init__: the counter is incremented and the new value is the id
PostInit(counter) == counter + 1

\* Flow(size=..., category=..., ...) constructed while the counter is `counter`
Flow(counter, size, category, time_executed, recurrent, comments) ==
  [flow_id |-> PostInit(counter), size |-> size, category |-> category,
   time_executed |-> time_executed, recurrent |-> recurrent,
   comments |-> comments]

\* the id of AppManager._flow, the first Flow a process constructs
TempFlowId == PostInit(IdCounterDefault)

\* AppManager.__init__ without its line `Flow._id_counter = ledger.last_id`:
\* the counter stays where the temporary flow left it
SeedCounterTemp(lid) == TempFlowId

\* Flow._id_counter after AppManager.__init__ loaded a ledger whose last_id
\* is lid: the temporary flow has taken its id, then the counter is set to
\* lid
SeedCounter(lid) == lid

\* pickle.dump(ledger): the whole object graph
save_ledger(fl, lid) == [flows |-> fl, last_id |-> lid]

\* pickle.load: the ledger that was dumped
load_ledger(d) == d

\* The ids the ledger is asked about: those of its flows, and the id of the
\* application's temporary flow, which is never added.
FlowIds(fl) ==
  {fl.executed[i].flow_id : i \in 1..Len(fl.executed)}
    \cup {fl.projected[i].flow_id : i \in 1..Len(fl.projected)}
    \cup {TempFlowId}

(* ------------------------------- Init ---------------------------------- *)
\* First launch: AppManager.__init__ finds no file, creates and saves an
\* empty Ledger, constructs the temporary flow (id 0) and sets the counter
\* to ledger.last_id.
Init ==
  /\ flows = [executed |-> <<>>, projected |-> <<>>]
  /\ last_id = LastIdDefault
  /\ id_counter = SeedCounter(LastIdDefault)
  /\ disk = save_ledger([executed |-> <<>>, projected |-> <<>>], LastIdDefault)
  /\ reloaded = FALSE
  /\ op = NoOp
  /\ now = 0
  /\ default_timestamp = 0
  /\ left = {}

(* ------------------------------ actions -------------------------------- *)
\* A Flow is constructed and not added to the ledger (the form's flow when
\* its date is in the future, a discarded draft): it takes an id.
NewFlow(in) ==
  /\ id_counter < MaxId
  /\ id_counter' = PostInit(id_counter)
  /\ op' = [NoOp EXCEPT !.name = "Flow",
                        !.flow = Flow(id_counter, in.size, in.category,
                                      in.time_executed, in.recurrent,
                                      in.comments)]
  /\ UNCHANGED <<flows, last_id, disk, reloaded>>

\* the message add_flow prints, "" when it prints nothing
AddFlowOut(fl, f) ==
  IF HasId(fl.projected, f.flow_id) THEN "exists in projected"
  ELSE IF HasId(fl.executed, f.flow_id) THEN "exists in executed"
  ELSE ""

\* add_flow with the two destinations exchanged
AddFlowFlowsSwapped(fl, f, is_proj) ==
  IF AddFlowOut(fl, f) # "" THEN fl
  ELSE IF is_proj THEN [fl EXCEPT !.executed = Append(fl.executed, f)]
  ELSE [fl EXCEPT !.projected = Append(fl.projected, f)]

\* Ledger._flows after add_flow(f, is_proj)
AddFlowFlows(fl, f, is_proj) ==
  IF AddFlowOut(fl, f) # "" THEN fl
  ELSE IF is_proj THEN [fl EXCEPT !.projected = Append(fl.projected, f)]
  ELSE [fl EXCEPT !.executed = Append(fl.executed, f)]

\* Ledger.last_id after add_flow(f, is_proj)
AddFlowLastId(fl, lid, f) ==
  IF AddFlowOut(fl, f) # "" THEN lid ELSE f.flow_id

\* what add_flow(f, is_proj) returns: the bare `return` of a rejection and
\* the end of the body of an insertion both give None; the rejection is
\* only printed
AddFlowRet(fl, f) ==
  IF AddFlowOut(fl, f) # "" THEN "None" ELSE "None"

\* Ledger.add_flow(f, is_proj), followed by the caller's save_ledger
add_flow(f, is_proj) ==
  /\ (AddFlowOut(flows, f) = "" /\ ~is_proj) =>
        Len(flows.executed) < MaxExecuted
  /\ flows' = AddFlowFlows(flows, f, is_proj)
  /\ last_id' = AddFlowLastId(flows, last_id, f)
  /\ op' = [NoOp EXCEPT !.name = "add_flow", !.flow = f,
                        !.is_proj = is_proj,
                        !.out = AddFlowOut(flows, f),
                        !.ret = AddFlowRet(flows, f)]
  /\ disk' = save_ledger(flows', last_id')
  /\ UNCHANGED reloaded

\* The caller constructs a Flow from entered values and adds it.
AddNewFlow(in, is_proj) ==
  /\ id_counter < MaxId
  /\ add_flow(Flow(id_counter, in.size, in.category, in.time_executed,
                   in.recurrent, in.comments), is_proj)
  /\ id_counter' = PostInit(id_counter)

\* The caller adds a Flow object again that the ledger already holds.
AddHeldFlow(f, is_proj) ==
  /\ add_flow(f, is_proj)
  /\ UNCHANGED id_counter

\* the projected flow execute_flow's loop stops at
Matched(fl, flow_id) == fl.projected[FirstWithId(fl.projected, flow_id)]

\* execute_flow keeping the projected size instead of real_size
ExecNewFlowKeepSize(counter, m, real_size, time_executed) ==
  Flow(counter, m.size, m.category, time_executed, m.recurrent, m.comments)

\* execute_flow not passing the comments on (Flow's default is used)
ExecNewFlowNoComments(counter, m, real_size, time_executed) ==
  Flow(counter, real_size, m.category, time_executed, m.recurrent, "")

\* the Flow execute_flow constructs for the executed partition
ExecNewFlow(counter, m, real_size, time_executed) ==
  Flow(counter, real_size, m.category, time_executed, m.recurrent, m.comments)

\* execute_flow leaving the time of a recurrent flow as it was
ExecProjectedKeepTime(p, i, time_executed) ==
  IF p[i].recurrent = 0 THEN ListRemove(p, p[i]) ELSE p

\* execute_flow removing the flow it found whatever its recurrence
ExecProjectedAlwaysRemove(p, i, time_executed) == ListRemove(p, p[i])

\* _flows['projected'] after execute_flow found the flow at index i
ExecProjected(p, i, time_executed) ==
  IF p[i].recurrent = 0 THEN ListRemove(p, p[i])
  ELSE [p EXCEPT ![i].time_executed = time_executed]

\* execute_flow looking the id up in both partitions
ExecuteFlowsAnyPartition(fl, counter, flow_id, real_size, time_executed) ==
  IF HasId(fl.projected, flow_id)
  THEN [executed |-> Append(fl.executed,
                            ExecNewFlow(counter, Matched(fl, flow_id),
                                        real_size, time_executed)),
        projected |-> ExecProjected(fl.projected,
                                    FirstWithId(fl.projected, flow_id),
                                    time_executed)]
  ELSE IF HasId(fl.executed, flow_id)
  THEN [fl EXCEPT !.executed[FirstWithId(fl.executed, flow_id)].size = real_size]
  ELSE fl

\* execute_flow assigning (=) instead of extending (+=) the executed tuple
ExecuteFlowsAssign(fl, counter, flow_id, real_size, time_executed) ==
  IF ~HasId(fl.projected, flow_id) THEN fl
  ELSE [executed |-> <<ExecNewFlow(counter, Matched(fl, flow_id),
                                   real_size, time_executed)>>,
        projected |-> ExecProjected(fl.projected,
                                    FirstWithId(fl.projected, flow_id),
                                    time_executed)]

\* Ledger._flows after execute_flow(flow_id, real_size, time_executed)
ExecuteFlows(fl, counter, flow_id, real_size, time_executed) ==
  IF ~HasId(fl.projected, flow_id) THEN fl
  ELSE [executed |-> Append(fl.executed,
                            ExecNewFlow(counter, Matched(fl, flow_id),
                                        real_size, time_executed)),
        projected |-> ExecProjected(fl.projected,
                                    FirstWithId(fl.projected, flow_id),
                                    time_executed)]

\* the value execute_flow returns
ExecuteRet(fl, flow_id) ==
  IF HasId(fl.projected, flow_id) THEN "True" ELSE "False"

\* Ledger.execute_flow(flow_id, real_size, time_executed), followed by the
\* caller's save_ledger
execute_flow(flow_id, real_size, time_executed) ==
  LET found == HasId(flows.projected, flow_id) IN
  /\ found => id_counter < MaxId /\ Len(flows.executed) < MaxExecuted
  /\ flows' = ExecuteFlows(flows, id_counter, flow_id, real_size, time_executed)
  /\ id_counter' = IF found THEN PostInit(id_counter) ELSE id_counter
  /\ op' = [NoOp EXCEPT !.name = "execute_flow", !.flow_id = flow_id,
                        !.real_size = real_size,
                        !.time_executed = time_executed,
                        !.matched = IF found THEN Matched(flows, flow_id)
                                    ELSE NoFlow,
                        !.ret = ExecuteRet(flows, flow_id)]
  /\ last_id' = last_id
  /\ disk' = save_ledger(flows', last_id')
  /\ UNCHANGED reloaded

\* _flows['projected'] after remove_projected_flow(flow_id)
RemoveProjected(p, flow_id) == SelectSeq(p, LAMBDA f : f.flow_id # flow_id)

\* remove_projected_flow comparing the lengths with <= instead of <
RemoveRetAlways(p, flow_id) ==
  IF Len(RemoveProjected(p, flow_id)) <= Len(p) THEN "True" ELSE "False"

\* the value remove_projected_flow returns
RemoveRet(p, flow_id) ==
  IF Len(RemoveProjected(p, flow_id)) < Len(p) THEN "True" ELSE "False"

\* Ledger.remove_projected_flow(flow_id), followed by the caller's
\* save_ledger
remove_projected_flow(flow_id) ==
  /\ flows' = [flows EXCEPT !.projected = RemoveProjected(flows.projected, flow_id)]
  /\ op' = [NoOp EXCEPT !.name = "remove_projected_flow",
                        !.flow_id = flow_id,
                        !.ret = RemoveRet(flows.projected, flow_id)]
  /\ last_id' = last_id
  /\ disk' = save_ledger(flows', last_id')
  /\ UNCHANGED <<id_counter, reloaded>>

\* The application is closed and started again: a new process, whose
\* AppManager.__init__ loads the ledger from disk and re-seeds the counter.
AppManagerInit ==
  LET ledger == load_ledger(disk) IN
  /\ flows' = ledger.flows
  /\ last_id' = ledger.last_id
  /\ id_counter' = SeedCounter(ledger.last_id)
  /\ reloaded' = TRUE
  /\ op' = [NoOp EXCEPT !.name = "AppManager"]
  /\ UNCHANGED disk

\* the clock does not matter to the calls on the ledger and stands still;
\* no history is kept
Still == UNCHANGED <<now, default_timestamp, left>>

\* One step of the ledger model: a call on the ledger or a restart.
Next ==
  \/ \E in \in FlowInputs : NewFlow(in) /\ Still
  \/ \E in \in FlowInputs, is_proj \in BOOLEAN : AddNewFlow(in, is_proj) /\ Still
  \/ \E i \in 1..Len(flows.executed), is_proj \in BOOLEAN :
       AddHeldFlow(flows.executed[i], is_proj) /\ Still
  \/ \E i \in 1..Len(flows.projected), is_proj \in BOOLEAN :
       AddHeldFlow(flows.projected[i], is_proj) /\ Still
  \/ \E flow_id \in FlowIds(flows), x \in Executions :
       execute_flow(flow_id, x.real_size, x.time_executed) /\ Still
  \/ \E flow_id \in FlowIds(flows) : remove_projected_flow(flow_id) /\ Still
  \/ AppManagerInit /\ Still

Spec == Init /\ [][Next]_vars

(* ---------------------- vocabulary of the claims ----------------------- *)
\* the two partitions, one after the other
AllFlows(fl) == fl.executed \o fl.projected

\* a flow with the id is in one of the partitions
InLedger(fl, id) == HasId(fl.executed, id) \/ HasId(fl.projected, id)

\* the last element of a non-empty sequence
Last(s) == s[Len(s)]

\* s without the flows that carry the id
Without(s, id) == SelectSeq(s, LAMBDA f : f.flow_id # id)

\* a is a prefix of b
IsPrefix(a, b) == Len(a) <= Len(b) /\ SubSeq(b, 1, Len(a)) = a

\* the projected flow with the id (there is one)
ProjectedFlow(fl, id) ==
  fl.projected[CHOOSE i \in 1..Len(fl.projected) : fl.projected[i].flow_id = id]

\* the step is a call of the operation `name`
Called(name) == op'.name = name

\* the step constructs a Flow, whose id is the new value of the counter
Constructs ==
  /\ Called("Flow") \/ Called("add_flow") \/ Called("execute_flow")
  /\ id_counter' = id_counter + 1

(* ------------------------------- C1 ------------------------------------ *)
\* C1: in every reachable state no flow id occurs in both partitions and
\* no flow id occurs twice inside a partition.
C1_UniqueFlowIds ==
  \A i, j \in 1..Len(AllFlows(flows)) :
     i # j => AllFlows(flows)[i].flow_id # AllFlows(flows)[j].flow_id

(* ------------------------------- C2 ------------------------------------ *)
\* C2: once the ledger was reloaded and the counter re-seeded from last_id,
\* every Flow constructed afterwards (by the caller or by execute_flow)
\* gets an id that no flow of the ledger holds.
C2_FreshIdAfterReload ==
  [][(reloaded' /\ Constructs) => ~InLedger(flows, id_counter')]_vars

(* ------------------------------- C3 ------------------------------------ *)
\* C3: add_flow with a flow whose id is already in a partition returns
\* normally, leaves both partitions and last_id as they were, and the
\* ledger holds exactly one flow with that id.
C3_AddDuplicateIsNoOp ==
  [][(Called("add_flow") /\ InLedger(flows, op'.flow.flow_id)) =>
       /\ op'.ret = "None"
       /\ flows' = flows
       /\ last_id' = last_id
       /\ CountId(AllFlows(flows'), op'.flow.flow_id) = 1]_vars

C5_ExecuteNotFound ==
  [][(Called("execute_flow") /\ ~HasId(flows.projected, op'.flow_id)) =>
       /\ op'.ret = "False"
       /\ flows' = flows
       /\ last_id' = last_id]_vars

\* execute_flow was just refused for the id of an executed flow
C5_Witness ==
  /\ op.name = "execute_flow" /\ op.ret = "False"
  /\ HasId(flows.executed, op.flow_id)
  /\ Len(flows.projected) >= 1
  /\ \E i \in 1..Len(flows.executed) :
        /\ flows.executed[i].flow_id = op.flow_id
        /\ flows.executed[i].size # op.real_size

(* ------------------------------- C6 ------------------------------------ *)
\* C6: execute_flow on a projected flow with recurrent = 0 returns True,
\* removes exactly that flow from projected, makes executed one longer, and
\* the new executed flow's size is real_size.
C6_ExecuteOneOff ==
  [][(/\ Called("execute_flow")
      /\ HasId(flows.projected, op'.flow_id)
      /\ ProjectedFlow(flows, op'.flow_id).recurrent = 0) =>
       /\ op'.ret = "True"
       /\ Len(flows'.projected) = Len(flows.projected) - 1
       /\ flows'.projected = Without(flows.projected, op'.flow_id)
       /\ Len(flows'.executed) = Len(flows.executed) + 1
       /\ Last(flows'.executed).size = op'.real_size]_vars

\* a one-off flow was just executed with a size other than the projected
\* one, and another projected flow stayed
C6_Witness ==
  /\ op.name = "execute_flow" /\ op.ret = "True"
  /\ op.matched.recurrent = 0
  /\ op.matched.size # op.real_size
  /\ Len(flows.projected) >= 1
  /\ ~HasId(flows.projected, op.flow_id)
  /\ Last(flows.executed).size = op.real_size

C9_RemoveProjected ==
  [][Called("remove_projected_flow") =>
       /\ (op'.ret = "True") <=> HasId(flows.projected, op'.flow_id)
       /\ op'.ret \in {"True", "False"}
       /\ ~HasId(flows'.projected, op'.flow_id)
       /\ flows'.projected = Without(flows.projected, op'.flow_id)
       /\ flows'.executed = flows.executed
       /\ last_id' = last_id]_vars

\* a projected flow was just removed; another one and an executed flow
\* stayed
C9_Witness ==
  /\ op.name = "remove_projected_flow" /\ op.ret = "True"
  /\ Len(flows.projected) >= 1
  /\ Len(flows.executed) >= 1
  /\ ~HasId(flows.projected, op.flow_id)

(* ------------------------------- C10 ----------------------------------- *)
\* C10: across every add_flow, execute_flow and remove_projected_flow step
\* the previous executed sequence is a prefix of the new one, every field
\* of its flows included.
C10_ExecutedAppendOnly ==
  [][(Called("add_flow") \/ Called("execute_flow")
        \/ Called("remove_projected_flow")) =>
       IsPrefix(flows.executed, flows'.executed)]_vars

\* a recurrent flow was just executed a second time, at another time than
\* the first: the earlier executed record still carries its own time
C10_Witness ==
  /\ op.name = "execute_flow" /\ op.ret = "True"
  /\ op.matched.recurrent > 0
  /\ Len(flows.executed) = 2
  /\ flows.executed[1].category = op.matched.category
  /\ flows.executed[1].recurrent = op.matched.recurrent
  /\ flows.executed[1].time_executed = op.matched.time_executed
  /\ flows.executed[1].time_executed # op.time_executed
  /\ ProjectedFlow(flows, op.flow_id).time_executed = op.time_executed

(* ===================== the life of a projected flow ==================== *)
\* the ids that left the projected partition through the call `by`
LeftBy(by) == {r.flow_id : r \in {x \in left : x.by = by}}

\* the history after the call o: a successful remove_projected_flow took
\* its flow out, a successful execute_flow took a one-off flow out
Departed(l, o) ==
  IF o.name = "remove_projected_flow" /\ o.ret = "True"
  THEN l \cup {[flow_id |-> o.flow_id, by |-> "remove_projected_flow"]}
  ELSE IF o.name = "execute_flow" /\ o.ret = "True" /\ o.matched.recurrent = 0
  THEN l \cup {[flow_id |-> o.flow_id, by |-> "execute_flow"]}
  ELSE l

\* The ids the buttons of the application may still carry: those of
\* FlowIds and those of flows that left the projected partition.
KnownIds == FlowIds(flows) \cup {r.flow_id : r \in left}

\* the history is brought up to date with the call just made; the clock
\* stands still
Kept ==
  /\ left' = Departed(left, op')
  /\ UNCHANGED <<now, default_timestamp>>

\* One step of the ledger with the history kept. Every add is the add of a
\* newly constructed Flow, as in the form: add_flow_get_comment_screen.py
\* constructs the Flow (and its copy) it adds.
LifeNext ==
  \/ \E in \in FlowInputs, is_proj \in BOOLEAN : AddNewFlow(in, is_proj) /\ Kept
  \/ \E flow_id \in KnownIds, x \in Executions :
       execute_flow(flow_id, x.real_size, x.time_executed) /\ Kept
  \/ \E flow_id \in KnownIds : remove_projected_flow(flow_id) /\ Kept
  \/ AppManagerInit /\ Kept

SpecLife == Init /\ [][LifeNext]_vars

C12_RemovedIdNotReused ==
  [][Constructs => id_counter' \notin LeftBy("remove_projected_flow")]_vars

\* after a removal and a restart a new flow was added under a new id
C12_Witness ==
  /\ reloaded
  /\ LeftBy("remove_projected_flow") # {}
  /\ op.name = "add_flow" /\ op.out = ""
  /\ op.flow.flow_id \notin LeftBy("remove_projected_flow")
  /\ InLedger(flows, op.flow.flow_id)

(* ========================= the balance engine ========================== *)
(* src/src/utils/balance.py and Ledger.flows_to_be_executed.  A datetime   *)
(* is the number of ticks since 2024-01-01 00:00:00, Second ticks to the   *)
(* second (datetime keeps microseconds: a tick stands for a part of a      *)
(* second); an amount is a number of thousandths of the currency unit.     *)
(* ------------------------- datetime, calendar -------------------------- *)
\* the seconds of a day
SecondsPerDay == 24 * 60 * 60

\* timedelta(days=1), in ticks
Day == SecondsPerDay * Second

\* datetime._days_before_year: days from 1 January of year 1 to 1 January
\* of year y
DaysBeforeYear(y) ==
  (y - 1) * 365 + (y - 1) \div 4 - (y - 1) \div 100 + (y - 1) \div 400

\* calendar.isleap
isleap(y) == (y % 4 = 0 /\ y % 100 # 0) \/ y % 400 = 0

\* calendar.monthrange(y, m)[1]: the number of days of the month
monthrange(y, m) ==
  IF m = 2 THEN (IF isleap(y) THEN 29 ELSE 28)
  ELSE IF m \in {4, 6, 9, 11} THEN 30 ELSE 31

\* datetime._days_before_month: days of the year y before the month m
RECURSIVE DaysBeforeMonth(_, _)
DaysBeforeMonth(y, m) ==
  IF m = 1 THEN 0 ELSE DaysBeforeMonth(y, m - 1) + monthrange(y, m - 1)

\* date(y, m, d) as a day number, day 0 being 2024-01-01
Ordinal(y, m, d) ==
  DaysBeforeYear(y) - DaysBeforeYear(2024) + DaysBeforeMonth(y, m) + (d - 1)

\* datetime(y, m, d, hh, mm, ss)
datetime(y, m, d, hh, mm, ss) ==
  Ordinal(y, m, d) * Day + (hh * 3600 + mm * 60 + ss) * Second

\* t.date(), as a day number
date(t) == t \div Day

\* t.time(), in ticks since midnight
time(t) == t % Day

\* the year of the day number n, searched from the year y
RECURSIVE YearOfOrdinal(_, _)
YearOfOrdinal(n, y) ==
  IF n < Ordinal(y, 1, 1) THEN YearOfOrdinal(n, y - 1)
  ELSE IF n >= Ordinal(y + 1, 1, 1) THEN YearOfOrdinal(n, y + 1)
  ELSE y

\* date.fromordinal: the year, month and day of the day number n
FromOrdinal(n) ==
  LET y == YearOfOrdinal(n, 2024)
      m == CHOOSE k \in 1..12 :
             /\ Ordinal(y, k, 1) <= n
             /\ n < Ordinal(y, k, 1) + monthrange(y, k)
  IN  [year |-> y, month |-> m, day |-> n - Ordinal(y, m, 1) + 1]

\* FromOrdinal tabulated for the days of 2023 to 2026, the years the
\* timestamps of the model lie in
Calendar == [n \in Ordinal(2023, 1, 1)..Ordinal(2026, 12, 31) |-> FromOrdinal(n)]

\* t.year
year(t) == Calendar[date(t)].year

\* t.month
month(t) == Calendar[date(t)].month

\* t.day
day(t) == Calendar[date(t)].day

\* t.replace(day=d)
replace_day(t, d) == datetime(year(t), month(t), d, 0, 0, 0) + time(t)

\* t.replace(day=d, hour=hh, minute=mm, second=ss): the part of a second
\* of t is kept
replace(t, d, hh, mm, ss) ==
  datetime(year(t), month(t), d, hh, mm, ss) + (t % Second)

\* f"{t.year}-{t.month:02d}": the four digits of the year and the two of
\* the month, read as one number (the order of the strings is the order
\* of these numbers)
month_key(t) == year(t) * 100 + month(t)

\* the amount cut to hundredths instead of rounded (int(balance * 100) / 100)
Format2fTruncated(balance) ==
  IF balance >= 0 THEN (balance \div 10) * 10 ELSE -(((-balance) \div 10) * 10)

\* float(f'{balance:.2f}'): the amount rounded to hundredths, an exact half
\* going to the even neighbour
Format2f(balance) ==
  LET q == balance \div 10
      r == balance % 10
  IN  IF r < 5 THEN q * 10
      ELSE IF r > 5 THEN (q + 1) * 10
      ELSE IF q % 2 = 0 THEN q * 10 ELSE (q + 1) * 10

\* sum(...) of a sequence of numbers
RECURSIVE sum(_)
sum(s) == IF s = <<>> THEN 0 ELSE Head(s) + sum(Tail(s))

\* the generator `flow.size for flow in s`
Sizes(s) == [i \in 1..Len(s) |-> s[i].size]

\* monthly_balances[key] = value on a dict kept in insertion order
DictSet(d, key, value) ==
  IF \E i \in 1..Len(d) : d[i].key = key
  THEN [i \in 1..Len(d) |->
          IF d[i].key = key THEN [key |-> key, value |-> value] ELSE d[i]]
  ELSE Append(d, [key |-> key, value |-> value])

(* ------------------------------ queries -------------------------------- *)
\* get_balance_state summing the flows of both partitions
get_balance_stateAllFlows(fl) ==
  LET sum_of_flows == sum(Sizes(fl.executed)) + sum(Sizes(fl.projected)) IN
  IF sum_of_flows > 0 THEN 1
  ELSE IF sum_of_flows < 0 THEN -1
  ELSE 0

\* get_balance_state(ledger)
get_balance_state(fl) ==
  LET sum_of_projected == sum(Sizes(fl.projected)) IN
  IF sum_of_projected > 0 THEN 1
  ELSE IF sum_of_projected < 0 THEN -1
  ELSE 0

\* get_balance comparing the datetimes, without .date()
get_balanceByInstant(fl, _timestamp) ==
  sum(Sizes(SelectSeq(fl.executed,
        LAMBDA flow : flow.time_executed <= _timestamp)))

\* get_balance with < in place of <=: the flows of the day itself are left out
get_balanceBeforeDay(fl, _timestamp) ==
  sum(Sizes(SelectSeq(fl.executed,
        LAMBDA flow : date(flow.time_executed) < date(_timestamp))))

\* get_balance(ledger, _timestamp)
get_balance(fl, _timestamp) ==
  sum(Sizes(SelectSeq(fl.executed,
        LAMBDA flow : date(flow.time_executed) <= date(_timestamp))))

\* the share of a projected flow with `%` written for `//`: the days into
\* the running period are taken for the number of periods
FutureFlowRemainder(proj_flow, timestamp) ==
  IF proj_flow.time_executed <= timestamp
  THEN IF proj_flow.recurrent = 0
       THEN proj_flow.size
       ELSE LET days == (timestamp - proj_flow.time_executed) \div Day
                times_executed == days % proj_flow.recurrent
            IN  proj_flow.size * times_executed
  ELSE 0

\* what one projected flow adds to the balance in the loop of
\* get_future_balance
FutureFlow(proj_flow, timestamp) ==
  IF proj_flow.time_executed <= timestamp
  THEN IF proj_flow.recurrent = 0
       THEN proj_flow.size
       ELSE LET days == (timestamp - proj_flow.time_executed) \div Day
                times_executed == days \div proj_flow.recurrent
            IN  proj_flow.size * times_executed
  ELSE 0

\* get_future_balance(ledger, timestamp), in a process whose get_balance
\* has the default argument dflt: `balance = get_balance(ledger)`
get_future_balance(fl, timestamp, dflt) ==
  get_balance(fl, dflt)
    + sum([i \in 1..Len(fl.projected) |-> FutureFlow(fl.projected[i], timestamp)])

\* the value stored for the month of current_date by one pass of the loop
\* of get_future_monthly_balances
FutureBucket(fl, current_date, end_timestamp, dflt) ==
  LET last_day == monthrange(year(current_date), month(current_date))
      month_end == replace(current_date, last_day, 23, 59, 59)
      end_of_month == IF month_end > end_timestamp THEN end_timestamp
                      ELSE month_end
      balance == get_future_balance(fl, end_of_month, dflt)
  IN  Format2f(balance)

\* a cursor moved by 31 days and then to the first day of the month
NextMonthBy31Days(current_date) ==
  replace_day(current_date + 31 * Day, 1)

\* the cursor of get_future_monthly_balances after one pass of the loop:
\* (current_date.replace(day=28) + timedelta(days=4)).replace(day=1)
NextMonth(current_date) ==
  LET next_month == replace_day(current_date, 28) + 4 * Day
  IN  replace_day(next_month, 1)

\* the while loop of get_future_monthly_balances, from current_date on
RECURSIVE FutureLoop(_, _, _, _, _)
FutureLoop(monthly_balances, fl, current_date, end_timestamp, dflt) ==
  IF current_date <= end_timestamp
  THEN FutureLoop(DictSet(monthly_balances, month_key(current_date),
                          FutureBucket(fl, current_date, end_timestamp, dflt)),
                  fl, NextMonth(current_date), end_timestamp, dflt)
  ELSE monthly_balances

\* get_future_monthly_balances(ledger, end_timestamp) called at the time t
get_future_monthly_balances(fl, end_timestamp, t, dflt) ==
  FutureLoop(<<>>, fl, t, end_timestamp, dflt)

\* the loop of get_past_monthly_balances with the lines that are commented
\* out in it: the balance of a month is what was added during the month
RECURSIVE PastLoopPerMonth(_, _, _, _)
PastLoopPerMonth(monthly_balances, fl, current_date, end_timestamp) ==
  IF current_date >= end_timestamp
  THEN LET last_day == monthrange(year(current_date), month(current_date))
           end_of_month == replace(current_date, last_day, 23, 59, 59)
           before_month == replace(current_date, 1, 0, 0, 0) - Day
           balance == get_balance(fl, end_of_month) - get_balance(fl, before_month)
       IN  PastLoopPerMonth(DictSet(monthly_balances, month_key(current_date), balance),
                            fl, replace_day(current_date, 1) - Day,
                            end_timestamp)
  ELSE monthly_balances

\* the value stored for the month of current_date by one pass of the loop
\* of get_past_monthly_balances
PastBucket(fl, current_date) ==
  LET last_day == monthrange(year(current_date), month(current_date))
      end_of_month == replace(current_date, last_day, 23, 59, 59)
  IN  get_balance(fl, end_of_month)

\* the cursor of get_past_monthly_balances after one pass of the loop:
\* current_date.replace(day=1) - timedelta(days=1)
PreviousMonth(current_date) == replace_day(current_date, 1) - Day

\* the while loop of get_past_monthly_balances, from current_date back
RECURSIVE PastLoop(_, _, _, _)
PastLoop(monthly_balances, fl, current_date, end_timestamp) ==
  IF current_date >= end_timestamp
  THEN PastLoop(DictSet(monthly_balances, month_key(current_date),
                        PastBucket(fl, current_date)),
                fl, PreviousMonth(current_date), end_timestamp)
  ELSE monthly_balances

\* get_past_monthly_balances(ledger, end_timestamp) called at the time t
get_past_monthly_balances(fl, end_timestamp, t) ==
  PastLoop(<<>>, fl, t, end_timestamp)

\* flows_to_be_executed without the recurrence period added
flows_to_be_executedNoPeriod(fl, t) ==
  LET today == date(t) IN
  SelectSeq(fl.projected,
    LAMBDA pending_flow : date(pending_flow.time_executed) = today)

\* Ledger.flows_to_be_executed() called at the time t
flows_to_be_executed(fl, t) ==
  LET today == date(t) IN
  SelectSeq(fl.projected,
    LAMBDA pending_flow :
      date(pending_flow.time_executed + pending_flow.recurrent * Day)
        = today)

(* --------------------- the ledger under the clock ---------------------- *)
\* the moment the first process is started: the last day of a year
BalanceStart == datetime(2024, 12, 31, 10, 0, 0)

\* the later moments the clock is looked at: the next day, which is the
\* first of the next month and year
ClockTimes == {datetime(2025, 1, 1, 9, 0, 0)}

\* Flows added to the executed partition: an income of 1000.004 in the
\* month before the start and an expense of 20.002 on the day after it.
\* The form dates a flow at 23:59:59 of the day picked in its calendar.
ExecutedInputs ==
  { [size |-> 1000004, category |-> "salary",
     time_executed |-> datetime(2024, 11, 15, 23, 59, 59),
     recurrent |-> 0, comments |-> ""],
    [size |-> -20002, category |-> "food",
     time_executed |-> datetime(2025, 1, 1, 23, 59, 59),
     recurrent |-> 0, comments |-> ""] }

\* Flows added to the projected partition: an expense of 50.006 every 7
\* days, first due on the day of the start, and an income of 200 expected
\* once in the next month.
ProjectedInputs ==
  { [size |-> -50006, category |-> "rent",
     time_executed |-> datetime(2024, 12, 24, 23, 59, 59),
     recurrent |-> 7, comments |-> "flat"],
    [size |-> 200000, category |-> "gift",
     time_executed |-> datetime(2025, 1, 10, 23, 59, 59),
     recurrent |-> 0, comments |-> ""] }

\* the real size typed in when a flow is executed
RealSizes == {-49998}

\* the instants balances are asked for
Timestamps ==
  { datetime(2024, 12, 31, 18, 0, 0), datetime(2025, 1, 1, 0, 0, 0),
    datetime(2025, 1, 31, 23, 59, 59) }

\* the end_timestamp values of get_future_monthly_balances
FutureEnds == {datetime(2025, 1, 15, 0, 0, 0), datetime(2025, 2, 28, 23, 59, 59)}

\* the end_timestamp values of get_past_monthly_balances
PastEnds == {datetime(2024, 11, 1, 0, 0, 0), datetime(2025, 1, 1, 0, 0, 0)}

\* The first process is started at BalanceStart on an empty ledger; it
\* imports utils/balance.py, which binds get_balance's default argument.
BalanceInit ==
  /\ flows = [executed |-> <<>>, projected |-> <<>>]
  /\ last_id = LastIdDefault
  /\ id_counter = SeedCounter(LastIdDefault)
  /\ disk = save_ledger(flows, last_id)
  /\ reloaded = FALSE
  /\ op = NoOp
  /\ now = BalanceStart
  /\ default_timestamp = BalanceStart
  /\ left = {}

\* time passes
Tick ==
  /\ \E t \in ClockTimes : t > now /\ now' = t
  /\ op' = [NoOp EXCEPT !.name = "tick"]
  /\ UNCHANGED <<flows, last_id, id_counter, disk, reloaded, default_timestamp, left>>

\* The application is closed and started again: AppManager.__init__, and
\* the new process imports utils/balance.py at the present time.
Restart ==
  /\ AppManagerInit
  /\ default_timestamp' = now
  /\ UNCHANGED <<now, left>>

\* a reversed() that was written list.reverse(): the query reorders the
\* projected list it reads
LedgerAfterQueryReversed(fl) ==
  [fl EXCEPT !.projected =
     [i \in 1..Len(fl.projected) |-> fl.projected[Len(fl.projected) + 1 - i]]]

\* Ledger._flows after a query: none of them assigns to the ledger or calls
\* a mutating method of its collections
LedgerAfterQuery(fl) == fl

\* a query was called with the argument `timestamp` (0 when it takes none)
\* and returned `ret`; nothing is saved
Query(name, timestamp, ret) ==
  /\ op' = [name |-> name, timestamp |-> timestamp, ret |-> ret]
  /\ flows' = LedgerAfterQuery(flows)
  /\ UNCHANGED <<last_id, id_counter, disk, reloaded, now, default_timestamp, left>>

\* AppManager.get_n_balance(): get_balance(self.ledger)
get_n_balance == Query("get_n_balance", 0, get_balance(flows, default_timestamp))

BalanceNext ==
  \/ \E in \in ExecutedInputs : AddNewFlow(in, FALSE) /\ Still
  \/ \E in \in ProjectedInputs : AddNewFlow(in, TRUE) /\ Still
  \/ \E i \in 1..Len(flows.projected), real_size \in RealSizes :
       execute_flow(flows.projected[i].flow_id, real_size, now) /\ Still
  \/ Tick
  \/ Restart
  \/ \E t \in Timestamps : Query("get_balance", t, get_balance(flows, t))
  \/ get_n_balance
  \/ Query("get_balance_state", 0, get_balance_state(flows))
  \/ \E t \in Timestamps :
       Query("get_future_balance", t, get_future_balance(flows, t, default_timestamp))
  \/ \E e \in FutureEnds :
       Query("get_future_monthly_balances", e,
             get_future_monthly_balances(flows, e, now, default_timestamp))
  \/ \E e \in PastEnds :
       Query("get_past_monthly_balances", e,
             get_past_monthly_balances(flows, e, now))
  \/ Query("flows_to_be_executed", 0, flows_to_be_executed(flows, now))

SpecBalance == BalanceInit /\ [][BalanceNext]_vars

(* ----------------- vocabulary of the claims on balances ---------------- *)
\* the sum of the sizes of the flows of s at the indices in I
RECURSIVE Total(_, _)
Total(s, I) ==
  IF I = {} THEN 0
  ELSE LET i == CHOOSE j \in I : TRUE IN s[i].size + Total(s, I \ {i})

\* the calendar day of a is the calendar day of b
SameDay(a, b) == year(a) = year(b) /\ month(a) = month(b) /\ day(a) = day(b)

\* the calendar day of a is before the calendar day of b
EarlierDay(a, b) ==
  \/ year(a) < year(b)
  \/ year(a) = year(b) /\ month(a) < month(b)
  \/ year(a) = year(b) /\ month(a) = month(b) /\ day(a) < day(b)

\* the sign of a number
Sign(x) == IF x > 0 THEN 1 ELSE IF x < 0 THEN -1 ELSE 0

\* the smaller of two numbers
Min(a, b) == IF a <= b THEN a ELSE b

\* the distance between two numbers
Dist(a, b) == IF a >= b THEN a - b ELSE b - a

\* the number of whole periods of a recurring flow f that have passed at asOf
Periods(f, asOf) ==
  CHOOSE k \in 0..(asOf - f.time_executed) :
    /\ f.time_executed + k * f.recurrent * Day <= asOf
    /\ asOf < f.time_executed + (k + 1) * f.recurrent * Day

\* what the projected flow f adds to the projected balance at asOf
Share(f, asOf) ==
  IF f.time_executed > asOf THEN 0
  ELSE IF f.recurrent = 0 THEN f.size
  ELSE f.size * Periods(f, asOf)

\* the sum of the shares of the projected flows of s from index i on
RECURSIVE Shares(_, _, _)
Shares(s, i, asOf) ==
  IF i > Len(s) THEN 0 ELSE Share(s[i], asOf) + Shares(s, i + 1, asOf)

\* 23:59:59 of the last day of the month with the key "YYYY-MM"
MonthEnd(key) ==
  datetime(key \div 100, key % 100, monthrange(key \div 100, key % 100),
           23, 59, 59)

\* the queries
Queries ==
  {"get_balance", "get_n_balance", "get_balance_state", "get_future_balance",
   "get_future_monthly_balances", "get_past_monthly_balances",
   "flows_to_be_executed"}

(* ------------------------------- C13 ----------------------------------- *)
\* C13: get_balance(ledger, T) returns the sum of the sizes of exactly the
\* executed flows whose time_executed lies on the calendar day of T or on
\* an earlier day, whatever the times of day and whatever the projected
\* flows; and once an executed flow dated after today has been added,
\* get_balance at the present time is what it was without it.
C13_RealizedBalance ==
  /\ op.name = "get_balance" =>
       op.ret = Total(flows.executed,
                      {i \in 1..Len(flows.executed) :
                         \/ SameDay(flows.executed[i].time_executed, op.timestamp)
                         \/ EarlierDay(flows.executed[i].time_executed, op.timestamp)})
  /\ (/\ op.name = "add_flow" /\ op.out = "" /\ ~op.is_proj
      /\ EarlierDay(now, op.flow.time_executed)) =>
       /\ Last(flows.executed) = op.flow
       /\ get_balance(flows, now) =
            get_balance([flows EXCEPT !.executed =
                           SubSeq(flows.executed, 1, Len(flows.executed) - 1)],
                        now)

\* get_balance was asked for a day on which an executed flow lies at a
\* later time of day: the flow is counted, the projected flows are not
C13_Witness ==
  /\ op.name = "get_balance"
  /\ Len(flows.projected) >= 1
  /\ \E i \in 1..Len(flows.executed) :
       /\ flows.executed[i].time_executed > op.timestamp
       /\ SameDay(flows.executed[i].time_executed, op.timestamp)
  /\ op.ret = sum(Sizes(flows.executed))
  /\ op.ret # 0

(* ------------------------------- C14 ----------------------------------- *)
\* C14: the balance the application displays (get_balance called without
\* a timestamp) is the balance at the time of the call: every executed
\* flow dated on the present calendar day or before is included, also
\* when the clock has moved to a later day since the process started.
C14_NowReadAtCall ==
  op.name = "get_n_balance" => op.ret = get_balance(flows, now)

(* ------------------------------- C15 ----------------------------------- *)
\* C15: get_future_balance(ledger, asOf) returns get_balance at the
\* present time plus, for each projected flow that is not after asOf, its
\* size once if it does not recur, or its size times the number of whole
\* periods passed at asOf if it does; a recurring flow of size A, period P
\* and time t0 adds A*k at t0 + k*P days and A*(k-1) one day earlier.
C15_ProjectedBalance ==
  /\ op.name = "get_future_balance" =>
       op.ret = get_balance(flows, now) + Shares(flows.projected, 1, op.timestamp)
  /\ \A i \in 1..Len(flows.projected), k \in 1..3 :
       LET f == flows.projected[i]
           at == f.time_executed + k * f.recurrent * Day
       IN  f.recurrent # 0 =>
             /\ FutureFlow(f, at) = f.size * k
             /\ FutureFlow(f, at - Day) = f.size * (k - 1)

(* ------------------------------- C16 ----------------------------------- *)
\* C16: get_balance_state returns the sign of the sum of the sizes of all
\* projected flows, each counted once whatever its recurrence and time;
\* executed flows do not count and an empty projected list gives 0.
C16_TrendSign ==
  op.name = "get_balance_state" =>
    /\ op.ret = Sign(Total(flows.projected, 1..Len(flows.projected)))
    /\ flows.projected = <<>> => op.ret = 0

\* the projected flows sum to a negative amount while the executed flows
\* sum to a larger positive one: the state is -1
C16_Witness ==
  /\ op.name = "get_balance_state" /\ op.ret = -1
  /\ \E i \in 1..Len(flows.projected) : flows.projected[i].recurrent # 0
  /\ sum(Sizes(flows.executed)) + sum(Sizes(flows.projected)) > 0

(* ------------------------------- C17 ----------------------------------- *)
\* C17: flows_to_be_executed returns exactly the projected flows whose
\* time_executed plus recurrent days lies on today's calendar day, the
\* times of day playing no part.
C17_DueToday ==
  op.name = "flows_to_be_executed" =>
    LET Due(f) == SameDay(f.time_executed + f.recurrent * Day, now) IN
    /\ \A i \in 1..Len(flows.projected) :
         Due(flows.projected[i]) <=>
           \E j \in 1..Len(op.ret) : op.ret[j] = flows.projected[i]
    /\ \A j \in 1..Len(op.ret) :
         \E i \in 1..Len(flows.projected) : op.ret[j] = flows.projected[i]
    /\ Len(op.ret) =
         Cardinality({i \in 1..Len(flows.projected) : Due(flows.projected[i])})

\* a recurring flow falls due today at a later time of day than the
\* present one and is returned; another projected flow is not
C17_Witness ==
  /\ op.name = "flows_to_be_executed"
  /\ Len(op.ret) = 1 /\ Len(flows.projected) = 2
  /\ op.ret[1].recurrent # 0
  /\ op.ret[1].time_executed + op.ret[1].recurrent * Day > now

(* ------------------------------- C18 ----------------------------------- *)
\* C18: no call of get_balance, get_balance_state, get_future_balance,
\* get_future_monthly_balances, get_past_monthly_balances or
\* flows_to_be_executed changes the ledger: both partitions, last_id and
\* the saved ledger are after the call what they were before it.
C18_QueriesReadOnly ==
  [][op'.name \in Queries =>
       /\ flows' = flows
       /\ last_id' = last_id
       /\ id_counter' = id_counter
       /\ disk' = disk]_vars

\* a query was answered on a ledger with an executed and two projected flows
C18_Witness ==
  /\ op.name \in Queries
  /\ Len(flows.executed) >= 1
  /\ Len(flows.projected) >= 2
  /\ flows.projected[1] # flows.projected[2]

(* ------------------------------- C19 ----------------------------------- *)
\* C19: the keys of get_future_monthly_balances increase strictly, one
\* per month, the first being the present month; the value of a month is
\* get_future_balance at 23:59:59 of its last day, or at end_timestamp if
\* that moment is after end_timestamp, rounded to hundredths.
C19_ForwardSeries ==
  op.name = "get_future_monthly_balances" =>
    /\ \A i \in 1..(Len(op.ret) - 1) : op.ret[i].key < op.ret[i+1].key
    /\ Len(op.ret) >= 1 => op.ret[1].key = month_key(now)
    /\ \A i \in 1..Len(op.ret) :
         LET balance == get_future_balance(flows,
                          Min(MonthEnd(op.ret[i].key), op.timestamp),
                          default_timestamp)
         IN  /\ op.ret[i].value % 10 = 0
             /\ 2 * Dist(op.ret[i].value, balance) <= 10

\* a series over two years' months whose last month is cut at
\* end_timestamp and in which rounding changed a value
C19_Witness ==
  /\ op.name = "get_future_monthly_balances"
  /\ Len(op.ret) >= 2
  /\ Len(flows.projected) >= 1
  /\ op.ret[1].key \div 100 < op.ret[Len(op.ret)].key \div 100
  /\ op.timestamp < MonthEnd(op.ret[Len(op.ret)].key)
  /\ \E i \in 1..Len(op.ret) :
       op.ret[i].value #
         get_future_balance(flows, Min(MonthEnd(op.ret[i].key), op.timestamp),
                            default_timestamp)

(* ------------------------------- C20 ----------------------------------- *)
\* C20: the keys of get_past_monthly_balances decrease strictly, the first
\* being the present month; the value of a month is the sum of the sizes
\* of all executed flows dated in that month or in any earlier one, not of
\* those of the month alone.
C20_BackwardSeries ==
  op.name = "get_past_monthly_balances" =>
    /\ \A i \in 1..(Len(op.ret) - 1) : op.ret[i].key > op.ret[i+1].key
    /\ Len(op.ret) >= 1 => op.ret[1].key = month_key(now)
    /\ \A i \in 1..Len(op.ret) :
         op.ret[i].value =
           Total(flows.executed,
                 {j \in 1..Len(flows.executed) :
                    month_key(flows.executed[j].time_executed) <= op.ret[i].key})

\* a series of three months across the turn of the year; the newest value
\* holds a flow of the newest month and a flow of the oldest
C20_Witness ==
  /\ op.name = "get_past_monthly_balances"
  /\ Len(op.ret) = 3
  /\ op.ret[1].key \div 100 > op.ret[3].key \div 100
  /\ \E i, j \in 1..Len(flows.executed) :
       /\ month_key(flows.executed[i].time_executed) = op.ret[1].key
       /\ month_key(flows.executed[j].time_executed) = op.ret[3].key
       /\ op.ret[1].value = flows.executed[i].size + flows.executed[j].size
       /\ op.ret[3].value = flows.executed[j].size

(* ------------------------ a day with the ledger ------------------------ *)
\* the income of the scenario: 1000, dated today (the form dates a flow at
\* 23:59:59 of the day picked)
Income(t) ==
  [size |-> 1000000, category |-> "salary",
   time_executed |-> replace(t, day(t), 23, 59, 59),
   recurrent |-> 0, comments |-> ""]

\* the recurring expense of the scenario: 50 every 7 days, first due today
Rent(t) ==
  [size |-> -50000, category |-> "rent",
   time_executed |-> replace(t, day(t), 23, 59, 59) - 7 * Day,
   recurrent |-> 7, comments |-> "flat"]

\* what is paid when the expense is executed: 48
RentPaid == -48000

\* the clock is looked at again an hour or a day later, up to two days
\* after the start
Wait ==
  /\ \E d \in {3600 * Second, Day} :
       /\ now + d <= BalanceStart + 2 * Day
       /\ now' = now + d
  /\ op' = [NoOp EXCEPT !.name = "tick"]
  /\ UNCHANGED <<flows, last_id, id_counter, disk, reloaded, default_timestamp, left>>

\* The scenario's calls in their order, each possible once the one before
\* it was made; balances and the balance state are asked for at any point.
ScenarioNext ==
  \/ /\ flows.executed = <<>> /\ flows.projected = <<>>
     /\ AddNewFlow(Income(now), FALSE) /\ Still
  \/ /\ Len(flows.executed) = 1 /\ flows.projected = <<>> /\ last_id = 1
     /\ AddNewFlow(Rent(now), TRUE) /\ Still
  \/ /\ Len(flows.executed) = 1 /\ Len(flows.projected) = 1
     /\ execute_flow(flows.projected[1].flow_id, RentPaid, now) /\ Still
  \/ /\ Len(flows.executed) = 2 /\ Len(flows.projected) = 1
     /\ remove_projected_flow(flows.projected[1].flow_id) /\ Still
  \/ Wait
  \/ Query("get_balance", now, get_balance(flows, now))
  \/ Query("get_balance_state", 0, get_balance_state(flows))

SpecScenario == BalanceInit /\ [][ScenarioNext]_vars

(* ------------------------------- C21 ----------------------------------- *)
\* C21: the first entry of get_future_monthly_balances (the bucket of the
\* present month) and the first entry of get_past_monthly_balances (the
\* bucket of the present month) are both get_balance at the present time.
C21_SeamContinuity ==
  /\ (op.name = "get_future_monthly_balances" /\ Len(op.ret) >= 1) =>
       (op.ret[1].key = month_key(now) /\ op.ret[1].value = get_balance(flows, now))
  /\ (op.name = "get_past_monthly_balances" /\ Len(op.ret) >= 1) =>
       (op.ret[1].key = month_key(now) /\ op.ret[1].value = get_balance(flows, now))

MissingFile == [file |-> "missing"]

\* the file at the path does not unpickle
CorruptFile == [file |-> "corrupt"]

\* open(load_path, 'rb') and pickle.load succeed on the file
Readable(d) == "flows" \in DOMAIN d

\* a call that raised returns no ledger
NoLedger == [flows |-> [executed |-> <<>>, projected |-> <<>>], last_id |-> -1]

\* Ledger(...) called with the keyword arguments `given`: the dataclass
\* field account_name has no default, so a call without it raises
Ledger(given) ==
  IF "account_name" \in given
  THEN [raised |-> "",
        ledger |-> [flows |-> [executed |-> <<>>, projected |-> <<>>],
                    last_id |-> LastIdDefault]]
  ELSE [raised |-> "TypeError", ledger |-> NoLedger]

\* load_ledger(load_path) as a whole: the try block, and the except block
\* with its `return Ledger()`
LoadLedger(d) ==
  IF Readable(d) THEN [raised |-> "", ledger |-> load_ledger(d)]
  ELSE Ledger({})

\* AppManager.__ledger_from_path(account_name)
LedgerFromPath(d) ==
  IF d = MissingFile THEN Ledger({"account_name"}) ELSE LoadLedger(d)

\* the file after AppManager.__ledger_from_path: a new ledger is saved
\* where there was no file
FileAfterStart(d) ==
  IF d = MissingFile
  THEN save_ledger(Ledger({"account_name"}).ledger.flows,
                   Ledger({"account_name"}).ledger.last_id)
  ELSE d

\* the file is deleted or overwritten from outside the application
Damage ==
  /\ \E d \in {MissingFile, CorruptFile} : d # disk /\ disk' = d
  /\ op' = [NoOp EXCEPT !.name = "damage"]
  /\ UNCHANGED <<flows, last_id, id_counter, reloaded>>

\* load_ledger(path) is called; its outcome is recorded
LoadLedgerCall ==
  /\ op' = [name |-> "load_ledger", raised |-> LoadLedger(disk).raised,
            ret |-> LoadLedger(disk).ledger]
  /\ UNCHANGED <<flows, last_id, id_counter, disk, reloaded>>

\* The application is started, whatever the file: AppManager.__init__. When
\* __ledger_from_path raises, no AppManager comes to exist and the start
\* changes nothing.
AppManagerStart ==
  LET r == LedgerFromPath(disk) IN
  IF r.raised = ""
  THEN /\ flows' = r.ledger.flows
       /\ last_id' = r.ledger.last_id
       /\ id_counter' = SeedCounter(r.ledger.last_id)
       /\ reloaded' = TRUE
       /\ disk' = FileAfterStart(disk)
       /\ op' = [NoOp EXCEPT !.name = "AppManager"]
  ELSE /\ op' = [NoOp EXCEPT !.name = "AppManager", !.out = r.raised]
       /\ UNCHANGED <<flows, last_id, id_counter, disk, reloaded>>

FileNext ==
  \/ \E in \in FlowInputs, is_proj \in BOOLEAN : AddNewFlow(in, is_proj) /\ Still
  \/ \E flow_id \in FlowIds(flows), x \in Executions :
       execute_flow(flow_id, x.real_size, x.time_executed) /\ Still
  \/ \E flow_id \in FlowIds(flows) : remove_projected_flow(flow_id) /\ Still
  \/ Damage /\ Still
  \/ LoadLedgerCall /\ Still
  \/ AppManagerStart /\ Still

SpecFile == Init /\ [][FileNext]_vars

(* ------------------------------- C23 ----------------------------------- *)
\* C23: whenever load_ledger is called on a file that is missing or does
\* not unpickle, it raises nothing and returns a new Ledger without
\* executed and without projected flows.
C23_LoadFallsBack ==
  (op.name = "load_ledger" /\ ~Readable(disk)) =>
    /\ op.raised = ""
    /\ op.ret.flows = [executed |-> <<>>, projected |-> <<>>]

(* ------------------------------- C24 ----------------------------------- *)
\* C24: what add_flow returns for a flow whose id is already in the ledger
\* differs from what it returns for the same flow under an id that is in
\* neither partition, so its caller can tell that nothing was inserted.
C24_DuplicateReported ==
  [][(Called("add_flow") /\ InLedger(flows, op'.flow.flow_id)) =>
       op'.ret # AddFlowRet(flows, [op'.flow EXCEPT !.flow_id = MaxId + 1])]_vars

(* ================== the monthly series, pass by pass ==================== *)
(* get_future_monthly_balances and get_past_monthly_balances of            *)
(* src/src/utils/balance.py with their while loops unrolled: `op` holds    *)
(* the locals of the running call, one step is one pass of the loop.       *)
\* The times the process is started at: days 29, 30 and 31, the last day of
\* February of a leap year, the last and the first day of a year.
SeriesStarts ==
  { datetime(2024, 1, 29, 10, 0, 0), datetime(2024, 1, 30, 23, 59, 59),
    datetime(2024, 2, 29, 12, 0, 0), datetime(2024, 3, 31, 0, 0, 0),
    datetime(2024, 12, 31, 10, 0, 0), datetime(2025, 1, 1, 9, 0, 0) }

\* end_timestamp arguments for a call at the time t: days before t, t
\* itself, days after t, at the time of day of t; midnight of the first
\* day and the last second of the last day of the month 45 days ahead.
SeriesEnds(t) ==
  { t + d * Day : d \in {-330, -45, -1, 0, 1, 45, 400} }
    \cup { replace(t + 45 * Day, 1, 0, 0, 0),
           replace(t + 45 * Day,
                   monthrange(year(t + 45 * Day),
                              month(t + 45 * Day)), 23, 59, 59) }

\* the flows of the form
SeriesInputs ==
  { [is_proj |-> FALSE,
     in |-> [size |-> 1000004, category |-> "salary",
             time_executed |-> datetime(2024, 2, 15, 23, 59, 59),
             recurrent |-> 0, comments |-> ""]],
    [is_proj |-> TRUE,
     in |-> [size |-> -50006, category |-> "rent",
             time_executed |-> datetime(2024, 3, 24, 23, 59, 59),
             recurrent |-> 7, comments |-> "flat"]] }

\* A process is started at one of the times on an empty ledger.
SeriesInit ==
  /\ flows = [executed |-> <<>>, projected |-> <<>>]
  /\ last_id = LastIdDefault
  /\ id_counter = SeedCounter(LastIdDefault)
  /\ disk = save_ledger(flows, last_id)
  /\ reloaded = FALSE
  /\ op = NoOp
  /\ now \in SeriesStarts
  /\ default_timestamp = now
  /\ left = {}

\* a call of one of the two functions is inside its while loop
InLoop == "pc" \in DOMAIN op /\ op.pc = "while"

\* get_future_monthly_balances(ledger, end_timestamp) is called and reaches
\* its loop: monthly_balances = {}, current_date = datetime.now()
FutureCall(end_timestamp) ==
  /\ ~InLoop
  /\ op' = [name |-> "get_future_monthly_balances", pc |-> "while",
            end_timestamp |-> end_timestamp, current_date |-> now,
            monthly_balances |-> <<>>]
  /\ UNCHANGED <<flows, last_id, id_counter, disk, reloaded>>

\* one pass of `while current_date <= end_timestamp`
FuturePass ==
  /\ InLoop /\ op.name = "get_future_monthly_balances"
  /\ op.current_date <= op.end_timestamp
  /\ op' = [op EXCEPT
              !.monthly_balances =
                 DictSet(@, month_key(op.current_date),
                         FutureBucket(flows, op.current_date, op.end_timestamp,
                                      default_timestamp)),
              !.current_date = NextMonth(@)]
  /\ UNCHANGED <<flows, last_id, id_counter, disk, reloaded>>

\* the loop condition fails: return monthly_balances
FutureReturn ==
  /\ InLoop /\ op.name = "get_future_monthly_balances"
  /\ ~(op.current_date <= op.end_timestamp)
  /\ op' = [op EXCEPT !.pc = "return"]
  /\ UNCHANGED <<flows, last_id, id_counter, disk, reloaded>>

\* get_past_monthly_balances(ledger, end_timestamp) is called and reaches
\* its loop
PastCall(end_timestamp) ==
  /\ ~InLoop
  /\ op' = [name |-> "get_past_monthly_balances", pc |-> "while",
            end_timestamp |-> end_timestamp, current_date |-> now,
            monthly_balances |-> <<>>]
  /\ UNCHANGED <<flows, last_id, id_counter, disk, reloaded>>

\* one pass of `while current_date >= end_timestamp`
PastPass ==
  /\ InLoop /\ op.name = "get_past_monthly_balances"
  /\ op.current_date >= op.end_timestamp
  /\ op' = [op EXCEPT
              !.monthly_balances =
                 DictSet(@, month_key(op.current_date),
                         PastBucket(flows, op.current_date)),
              !.current_date = PreviousMonth(@)]
  /\ UNCHANGED <<flows, last_id, id_counter, disk, reloaded>>

\* the loop condition fails: return monthly_balances
PastReturn ==
  /\ InLoop /\ op.name = "get_past_monthly_balances"
  /\ ~(op.current_date >= op.end_timestamp)
  /\ op' = [op EXCEPT !.pc = "return"]
  /\ UNCHANGED <<flows, last_id, id_counter, disk, reloaded>>

\* The handlers run one after the other on the GUI thread: no flow is
\* added while a series is being computed.
SeriesNext ==
  \/ \E x \in SeriesInputs : ~InLoop /\ AddNewFlow(x.in, x.is_proj) /\ Still
  \/ \E end_timestamp \in SeriesEnds(now) : FutureCall(end_timestamp) /\ Still
  \/ FuturePass /\ Still
  \/ FutureReturn /\ Still
  \/ \E end_timestamp \in SeriesEnds(now) : PastCall(end_timestamp) /\ Still
  \/ PastPass /\ Still
  \/ PastReturn /\ Still

SpecSeries == SeriesInit /\ [][SeriesNext]_vars

\* A call that has started runs on: the next pass of its loop, and its
\* return, are taken when they are possible.
SpecSeriesFair ==
  /\ SpecSeries
  /\ WF_vars(FuturePass /\ Still) /\ WF_vars(FutureReturn /\ Still)
  /\ WF_vars(PastPass /\ Still) /\ WF_vars(PastReturn /\ Still)

\* the months counted from the year 0
MonthIndex(t) == year(t) * 12 + (month(t) - 1)

\* the key of the month with the index n
KeyOfIndex(n) == (n \div 12) * 100 + ((n % 12) + 1)

(* ------------------------------- C25 ----------------------------------- *)
\* C25: every pass of the loop of get_future_monthly_balances moves the
\* cursor to the next calendar month and every pass of the loop of
\* get_past_monthly_balances to the previous one, also over the end of a
\* year and from the days 29, 30 and 31; and every call that has entered
\* its loop returns, whatever the ledger and whether end_timestamp is
\* before, at or after the present time.
C25_SeriesTerminate ==
  /\ [][(InLoop /\ op'.pc = "while") =>
          IF op.name = "get_future_monthly_balances"
          THEN MonthIndex(op'.current_date) = MonthIndex(op.current_date) + 1
          ELSE MonthIndex(op'.current_date) = MonthIndex(op.current_date) - 1]_vars
  /\ (InLoop ~> ("pc" \in DOMAIN op /\ op.pc = "return"))

\* a forward series started on 31 December has returned with the months of
\* two years
C25_Witness ==
  /\ "pc" \in DOMAIN op /\ op.pc = "return"
  /\ op.name = "get_future_monthly_balances"
  /\ day(now) = 31 /\ month(now) = 12
  /\ Len(op.monthly_balances) >= 3
  /\ op.monthly_balances[2].key = KeyOfIndex(MonthIndex(now) + 1)
  /\ Len(flows.projected) >= 1

(* ------------------------------- C28 ----------------------------------- *)
\* C28: get_future_monthly_balances called at the present time with an
\* end_timestamp not before it returns one entry for each calendar month
\* from the month of the present time to the month of end_timestamp, both
\* included, in this order and whatever the times of day of the two; with
\* an end_timestamp before the present time it returns no entry.
C28_OneEntryPerMonth ==
  ("pc" \in DOMAIN op /\ op.pc = "return"
     /\ op.name = "get_future_monthly_balances") =>
    IF op.end_timestamp >= now
    THEN /\ Len(op.monthly_balances)
              = MonthIndex(op.end_timestamp) - MonthIndex(now) + 1
         /\ \A i \in 1..Len(op.monthly_balances) :
              op.monthly_balances[i].key = KeyOfIndex(MonthIndex(now) + i - 1)
    ELSE op.monthly_balances = <<>>

(* ===================== recurring flows falling due ====================== *)
(* Recurring projected flows, executed from the list of the flows to be    *)
(* executed (time_executed = datetime.now()) or by a caller of             *)
(* Ledger.execute_flow at the time they fall due, while days pass.         *)
\* The clock is read at these times after the start at BalanceStart: in the
\* last second of the day of the start, on the next day, on the day after.
DueClock ==
  { datetime(2024, 12, 31, 23, 59, 59) + 1, datetime(2025, 1, 1, 9, 0, 0),
    datetime(2025, 1, 2, 12, 0, 0) }

\* Recurring flows of the form: rent every 7 days, first due on the day
\* after the start; an allowance every 2 days, first due on the day of the
\* start.
DueInputs ==
  { [size |-> -50006, category |-> "rent",
     time_executed |-> datetime(2024, 12, 25, 23, 59, 59),
     recurrent |-> 7, comments |-> "flat"],
    [size |-> 30000, category |-> "allowance",
     time_executed |-> datetime(2024, 12, 29, 23, 59, 59),
     recurrent |-> 2, comments |-> ""] }

\* the timestamps get_future_balance is asked for
DueAsOfs ==
  { datetime(2024, 12, 31, 23, 59, 59), datetime(2025, 1, 1, 23, 59, 59),
    datetime(2025, 1, 2, 12, 0, 0), datetime(2025, 1, 31, 23, 59, 59) }

\* time passes
DueTick ==
  /\ \E t \in DueClock : t > now /\ now' = t
  /\ op' = [NoOp EXCEPT !.name = "tick"]
  /\ UNCHANGED <<flows, last_id, id_counter, disk, reloaded, default_timestamp, left>>

\* the time the projected flow falls due next
NextDue(pending_flow) ==
  pending_flow.time_executed + pending_flow.recurrent * Day

\* A caller executes a projected flow for the time it fell due, today or
\* earlier, with its projected size.
ExecuteDue(pending_flow) ==
  /\ date(NextDue(pending_flow)) <= date(now)
  /\ execute_flow(pending_flow.flow_id, pending_flow.size, NextDue(pending_flow))

DueNext ==
  \/ \E in \in DueInputs : AddNewFlow(in, TRUE) /\ Still
  \/ \E i \in 1..Len(flows.projected) :
       execute_flow(flows.projected[i].flow_id, flows.projected[i].size, now) /\ Still
  \/ \E i \in 1..Len(flows.projected) : ExecuteDue(flows.projected[i]) /\ Still
  \/ DueTick
  \/ Restart
  \/ \E t \in DueAsOfs :
       Query("get_future_balance", t, get_future_balance(flows, t, default_timestamp))
  \/ Query("flows_to_be_executed", 0, flows_to_be_executed(flows, now))

SpecDue == BalanceInit /\ [][DueNext]_vars

\* 23:59:59 of the day D
EndOfDay(D) == D * Day + (SecondsPerDay - 1) * Second

(* ------------------------------- C26 ----------------------------------- *)
\* C26: execute_flow on a recurring projected flow with time_executed = the
\* flow's time_executed + recurrent days, on a day not after today, and
\* with real_size = the flow's size leaves get_future_balance(ledger, asOf)
\* as it was for every asOf >= that time_executed.
C26_ExecuteOnDueKeepsProjection ==
  [][(/\ Called("execute_flow")
      /\ HasId(flows.projected, op'.flow_id)
      /\ ProjectedFlow(flows, op'.flow_id).recurrent > 0
      /\ op'.time_executed = NextDue(ProjectedFlow(flows, op'.flow_id))
      /\ date(op'.time_executed) <= date(now)
      /\ op'.real_size = ProjectedFlow(flows, op'.flow_id).size) =>
       \A asOf \in DueAsOfs :
         asOf >= op'.time_executed =>
           get_future_balance(flows', asOf, default_timestamp')
             = get_future_balance(flows, asOf, default_timestamp)]_vars

(* ------------------------------- C27 ----------------------------------- *)
\* C27: a recurring projected flow is in the list flows_to_be_executed()
\* returns on the day D exactly if get_future_balance at 23:59:59 of D
\* counts the flow once and at 23:59:59 of every earlier day not at all,
\* whatever the time of day of the flow's time_executed.
C27_DueAgreesWithProjection ==
  (op.name = "flows_to_be_executed") =>
    \A i \in 1..Len(flows.projected) :
      LET f == flows.projected[i] IN
      f.recurrent > 0 =>
        ((\E j \in 1..Len(op.ret) : op.ret[j] = f)
           <=> /\ FutureFlow(f, EndOfDay(date(now))) = f.size
               /\ \A D \in date(f.time_executed)..(date(now) - 1) :
                    FutureFlow(f, EndOfDay(D)) = 0)

(* ------------------------------- C29 ----------------------------------- *)
\* C29: when no projected flow has a negative size, get_future_balance does
\* not decrease from a timestamp to a later one, and the values of
\* get_future_monthly_balances do not decrease from one key to the next;
\* when no projected flow has a positive size, they do not increase.
C29_ProjectionMonotone ==
  LET NonNegative == \A i \in 1..Len(flows.projected) : flows.projected[i].size >= 0
      NonPositive == \A i \in 1..Len(flows.projected) : flows.projected[i].size <= 0
      At(t) == get_future_balance(flows, t, default_timestamp)
  IN
  /\ \A a, b \in Timestamps :
       a <= b => /\ NonNegative => At(a) <= At(b)
                 /\ NonPositive => At(a) >= At(b)
  /\ (op.name = "get_future_monthly_balances") =>
       \A i \in 1..(Len(op.ret) - 1) :
         /\ op.ret[i].key < op.ret[i+1].key
         /\ NonNegative => op.ret[i].value <= op.ret[i+1].value
         /\ NonPositive => op.ret[i].value >= op.ret[i+1].value

\* a forward series over three months that falls from month to month, and
\* a projected balance that falls between two of the timestamps, with
\* expenses only in projected and flows in executed
C29_Witness ==
  /\ op.name = "get_future_monthly_balances"
  /\ Len(op.ret) = 3
  /\ op.ret[1].value > op.ret[2].value /\ op.ret[2].value > op.ret[3].value
  /\ Len(flows.projected) >= 1 /\ Len(flows.executed) >= 1
  /\ \A i \in 1..Len(flows.projected) : flows.projected[i].size < 0
  /\ \E a, b \in Timestamps :
       /\ a < b
       /\ get_future_balance(flows, a, default_timestamp)
            > get_future_balance(flows, b, default_timestamp)

(* ========================= the add-flow form =========================== *)
(* submit_button_pressed of                                                *)
(* src/src/gui/screens/add_flow_get_comment_screen.py, between executes,   *)
(* removals and restarts of the application.                               *)
\* what is entered in the form; the date picked is kept as 23:59:59 of the
\* day: a one-off flow of today, a recurring flow of today, a one-off flow
\* and a recurring flow of a later day
FormInputs ==
  { [size |-> -20002, category |-> "food",
     time_executed |-> replace(BalanceStart, day(BalanceStart), 23, 59, 59),
     recurrent |-> 0, comments |-> ""],
    [size |-> -50006, category |-> "rent",
     time_executed |-> replace(BalanceStart, day(BalanceStart), 23, 59, 59),
     recurrent |-> 7, comments |-> "flat"],
    [size |-> 200000, category |-> "gift",
     time_executed |-> replace(BalanceStart, day(BalanceStart), 23, 59, 59) + 10 * Day,
     recurrent |-> 0, comments |-> ""],
    [size |-> -9000, category |-> "music",
     time_executed |-> replace(BalanceStart, day(BalanceStart), 23, 59, 59) + 10 * Day,
     recurrent |-> 30, comments |-> ""] }

\* Flow.copy() while the counter is `counter`
copy(counter, f) ==
  Flow(counter, f.size, f.category, f.time_executed, f.recurrent, f.comments)

\* the first condition of the handler: the flow goes to executed
ToExecuted(f, t) == date(f.time_executed) <= date(t)

\* the second condition of the handler: a copy goes to projected
ToProjected(f, t) == date(f.time_executed) > date(t) \/ f.recurrent # 0

\* submit_button_pressed as a whole: the Flow is constructed, added to
\* executed, copied and the copy added to projected, as the two
\* conditions say, and the ledger is saved.
Submit(in) ==
  LET flow == Flow(id_counter, in.size, in.category, in.time_executed,
                   in.recurrent, in.comments)
      counter1 == PostInit(id_counter)
      to_executed == ToExecuted(flow, now)
      to_projected == ToProjected(flow, now)
      flows1 == IF to_executed THEN AddFlowFlows(flows, flow, FALSE) ELSE flows
      last_id1 == IF to_executed THEN AddFlowLastId(flows, last_id, flow)
                  ELSE last_id
      flow_copy == copy(counter1, flow)
      flows2 == IF to_projected THEN AddFlowFlows(flows1, flow_copy, TRUE)
                ELSE flows1
      last_id2 == IF to_projected THEN AddFlowLastId(flows1, last_id1, flow_copy)
                  ELSE last_id1
  IN
  /\ IF to_projected THEN counter1 < MaxId ELSE id_counter < MaxId
  /\ (to_executed /\ AddFlowOut(flows, flow) = "") =>
        Len(flows.executed) < MaxExecuted
  /\ flows' = flows2
  /\ last_id' = last_id2
  /\ id_counter' = IF to_projected THEN PostInit(counter1) ELSE counter1
  /\ disk' = save_ledger(flows', last_id')
  /\ op' = [name |-> "submit_button_pressed", flow |-> flow,
            flow_copy |-> IF to_projected THEN flow_copy ELSE NoFlow,
            to_executed |-> to_executed, to_projected |-> to_projected]
  /\ UNCHANGED reloaded

FormNext ==
  \/ \E in \in FormInputs : Submit(in) /\ Still
  \/ \E i \in 1..Len(flows.projected), real_size \in RealSizes :
       execute_flow(flows.projected[i].flow_id, real_size, now) /\ Still
  \/ \E i \in 1..Len(flows.projected) :
       remove_projected_flow(flows.projected[i].flow_id) /\ Still
  \/ Tick
  \/ Restart

SpecForm == BalanceInit /\ [][FormNext]_vars

(* ------------------------------- C30 ----------------------------------- *)
\* C30: after any adds, executes, removals and restarts, a submission of
\* the form appends the entered flow to executed when its date is today
\* or earlier, and appends a copy of it with another id to projected when
\* its date is later than today or its recurrent is not 0; one of the two
\* happens at every submission.
C30_SubmissionStored ==
  [][Called("submit_button_pressed") =>
       /\ op'.to_executed \/ op'.to_projected
       /\ op'.to_executed =>
            flows'.executed = Append(flows.executed, op'.flow)
       /\ op'.to_projected =>
            /\ flows'.projected = Append(flows.projected, op'.flow_copy)
            /\ op'.flow_copy.flow_id # op'.flow.flow_id
            /\ op'.flow_copy = [op'.flow EXCEPT !.flow_id = op'.flow_copy.flow_id]]_vars

=============================================================================
